---------------------------- MODULE Spec2Model ----------------------------
(***************************************************************************)
(* The OpenVDB From Particles SOP                                          *)
(* (openvdb_houdini/houdini/SOP_OpenVDB_From_Particles.cc).                *)
(*                                                                         *)
(* The node's parameters, its two inputs and its cache are the state; the  *)
(* cook (cookVDBSop) is stepped through its stages by a program counter.   *)
(* World-space lengths are exact rationals over a one-dimensional voxel    *)
(* grid: the unit of length is 5e-6, so the minimum voxel size 1e-5 of     *)
(* the cook is 2.  Floating-point rounding is not modelled.                *)
(***************************************************************************)
EXTENDS Integers, Sequences, FiniteSets, TLC

(***************************************************************************)
(* Bounds of the model.                                                    *)
(***************************************************************************)
MaxVoxelSize == 3
MaxHalfBand == 2
MaxParticles == 2
MaxEdits == 3
MaxRecooks == 1
MaxDilation == 2
MaxRequests == 2
MaxTupleSize == 4
NumVoxels == 4

(***************************************************************************)
(* Program constants, in the model's unit of length.                       *)
(***************************************************************************)
MinVoxelSize == 2
\* raster.setRmax(1e15f): 1e15 = RmaxMillions * 10^6
RmaxMillions == 1000000000

Voxels == 0 .. (NumVoxels - 1)

(***************************************************************************)
(* Exact rationals [n, d] in lowest terms, d > 0: the model of the code's  *)
(* float, double and fpreal values.                                        *)
(***************************************************************************)
Abs(i) == IF i < 0 THEN -i ELSE i

RECURSIVE GCD(_, _)
GCD(a, b) == IF b = 0 THEN a ELSE GCD(b, a % b)

Norm(n, d) ==
    LET g == GCD(Abs(n), d)
    IN  [n |-> n \div g, d |-> d \div g]

R(i) == [n |-> i, d |-> 1]
Frac(n, d) == Norm(n, d)
RNeg(a) == [n |-> -a.n, d |-> a.d]
RAdd(a, b) == Norm(a.n * b.d + b.n * a.d, a.d * b.d)
RSub(a, b) == RAdd(a, RNeg(b))
RMul(a, b) == Norm(a.n * b.n, a.d * b.d)
RDivI(a, k) == Norm(a.n, a.d * k)
RLess(a, b) == a.n * b.d < b.n * a.d
RLeq(a, b) == a.n * b.d <= b.n * a.d
RMin(a, b) == IF RLess(b, a) THEN b ELSE a
RMax(a, b) == IF RLess(a, b) THEN b ELSE a
RAbs(a) == [n |-> Abs(a.n), d |-> a.d]
RFloor(a) == a.n \div a.d
RCeil(a) == -((-a.n) \div a.d)
\* int(x) of C++: truncation towards zero
RTrunc(a) == IF a.n >= 0 THEN a.n \div a.d ELSE -((-a.n) \div a.d)


(***************************************************************************)
(* Sparse grids over the voxel window.  A grid owns its class, its value   *)
(* type, the voxel size of its (linear) transform, its background and,     *)
(* per voxel, a value and an active flag.                                  *)
(***************************************************************************)
Grid(cls, type, vs, bg, val, on) ==
    [gridClass |-> cls, valueType |-> type, voxelSize |-> vs,
     background |-> bg, val |-> val, on |-> on]

\* openvdb::FloatGrid::create(background): empty, class unknown, unit transform
FloatGridCreate(bg) ==
    Grid("GRID_UNKNOWN", "float", 1, bg, [x \in Voxels |-> bg], [x \in Voxels |-> FALSE])

setGridClass(g, cls) == [g EXCEPT !.gridClass = cls]
setTransform(g, vs) == [g EXCEPT !.voxelSize = vs]

NoActiveVoxel(g) == \A x \in Voxels : ~g.on[x]
AllBackground(g) == \A x \in Voxels : ~g.on[x] /\ g.val[x] = g.background

\* world coordinate of the centre of voxel x under a linear transform
WorldPos(x, vs) == x * vs

\* signed distance from world point w to the sphere (pos, rad), pos and rad rational
SphereDist(w, pos, rad) == RSub(RAbs(RSub(R(w), pos)), rad)

(***************************************************************************)
(* ParticleList: the adapter over the point geometry.  The geometry is     *)
(* [P, pscale, v, hasPscale, hasV]: positions, the optional radius and     *)
(* velocity attributes (sequences indexed by point number + 1).            *)
(***************************************************************************)
ParticleList(gdp, radiusMult, velocityMult) ==
    [mGdp |-> gdp, mHasRadius |-> gdp.hasPscale, mHasVelocity |-> gdp.hasV,
     mRadiusMult |-> radiusMult, mVelocityMult |-> velocityMult]

hasRadius(pa) == pa.mHasRadius
hasVelocity(pa) == pa.mHasVelocity
radiusMult(pa) == pa.mRadiusMult
\* the multiplier set for the radius and for the velocity alike
setRadiusMult_AlsoVelocity(pa, mult) ==
    [pa EXCEPT !.mRadiusMult = mult, !.mVelocityMult = mult]
setRadiusMult(pa, mult) == [pa EXCEPT !.mRadiusMult = mult]
size(gdp) == Len(gdp.P)

\* getPosRad: rad = mRadiusMult * pscale
getRad(pa, gdp, n) == RMul(pa.mRadiusMult, R(gdp.pscale[n + 1]))
\* getPosRadVel: rad falls back to the multiplier, vel = mVelocityMult * v
getRadOrMult(pa, gdp, n) == IF pa.mHasRadius THEN getRad(pa, gdp, n) ELSE pa.mRadiusMult
getVel(pa, gdp, n) == RMul(pa.mVelocityMult, R(gdp.v[n + 1]))
\* getAtt: the attribute carried into the index grid is the point number
getAtt(n) == n

(***************************************************************************)
(* tools::ParticlesToLevelSet.  A raster is the target grid, the index     *)
(* (closest point) grid, the two counters of ignored particles and the     *)
(* number of particles written.                                            *)
(***************************************************************************)
Raster(grid) ==
    [grid |-> grid, idx |-> [x \in Voxels |-> -1], minCount |-> 0, maxCount |-> 0,
     usedCount |-> 0]

\* radius (in voxels) above Rmax = 1e15
AboveRmax(rVox) ==
    LET f == RFloor(rVox)
        q == f \div 1000000
    IN  \/ q > RmaxMillions
        \/ q = RmaxMillions /\ (f % 1000000 # 0 \/ rVox.n % rVox.d # 0)

\* one sphere written into the raster: per voxel the minimum distance wins
\* and the index grid records the particle that wrote it
MakeSphere(r, id, pos, rad) ==
    LET bg == r.grid.background
        vs == r.grid.voxelSize
        d(x) == SphereDist(WorldPos(x, vs), pos, rad)
        nv(x) == RMax(d(x), RNeg(bg))
        hit(x) == RLess(d(x), bg) /\ RLess(nv(x), r.grid.val[x])
        val == [x \in Voxels |-> IF hit(x) THEN nv(x) ELSE r.grid.val[x]]
    IN  [r EXCEPT !.grid.val = val,
                  !.grid.on = [x \in Voxels |->
                                 IF hit(x) THEN RLess(RAbs(val[x]), bg) ELSE r.grid.on[x]],
                  !.idx = [x \in Voxels |-> IF hit(x) THEN id ELSE r.idx[x]]]

\* a particle is ignored and counted when its radius in voxels is below Rmin
\* or above Rmax; otherwise its spheres (centres in cs) are written
AddParticle(r, id, cs, rad, Rmin) ==
    LET rVox == RDivI(rad, r.grid.voxelSize)
        RECURSIVE Spheres(_, _)
        Spheres(rr, k) ==
            IF k > Len(cs) THEN rr ELSE Spheres(MakeSphere(rr, id, cs[k], rad), k + 1)
    IN  IF RLess(rVox, Rmin) THEN [r EXCEPT !.minCount = @ + 1]
        ELSE IF AboveRmax(rVox) THEN [r EXCEPT !.maxCount = @ + 1]
        ELSE [Spheres(r, 1) EXCEPT !.usedCount = @ + 1]

\* centres of a trail: the particle's position and the samples behind it,
\* spaced delta voxels apart over the length of the (scaled) velocity
TrailCentres(pos, vel, delta, vs) ==
    LET step == RMul(delta, R(vs))
        RECURSIVE Samples(_)
        Samples(j) ==
            IF RLess(RAbs(vel), RMul(step, R(j))) \/ j > NumVoxels THEN <<>>
            ELSE <<RSub(R(pos), RMul(IF vel.n < 0 THEN RNeg(step) ELSE step, R(j)))>>
                     \o Samples(j + 1)
    IN  IF step.n <= 0 THEN <<R(pos)>> ELSE Samples(0)

\* the particles of order reach the field one after another (all particles
\* unless interrupted): the workers' partition of the particles and the
\* order in which their fields are merged, taken together
\* rasterizeSpheres(paList)
rasterizeSpheres(r, pa, gdp, Rmin, order) ==
    LET RECURSIVE Go(_, _)
        Go(rr, k) ==
            IF k > Len(order) THEN rr
            ELSE Go(AddParticle(rr, getAtt(order[k]), <<R(gdp.P[order[k] + 1])>>,
                                getRad(pa, gdp, order[k]), Rmin),
                    k + 1)
    IN  Go(r, 1)

\* rasterizeSpheres(paList, radius)
rasterizeSpheresFixed(r, gdp, radius, Rmin, order) ==
    LET RECURSIVE Go(_, _)
        Go(rr, k) ==
            IF k > Len(order) THEN rr
            ELSE Go(AddParticle(rr, getAtt(order[k]), <<R(gdp.P[order[k] + 1])>>,
                                radius, Rmin),
                    k + 1)
    IN  Go(r, 1)

\* rasterizeTrails(paList, delta)
rasterizeTrails(r, pa, gdp, delta, Rmin, order) ==
    LET RECURSIVE Go(_, _)
        Go(rr, k) ==
            IF k > Len(order) THEN rr
            ELSE Go(AddParticle(rr, getAtt(order[k]),
                                TrailCentres(gdp.P[order[k] + 1], getVel(pa, gdp, order[k]),
                                             delta, rr.grid.voxelSize),
                                getRadOrMult(pa, gdp, order[k]), Rmin),
                    k + 1)
    IN  Go(r, 1)

\* finalize(prune = true): voxels at the background magnitude leave the
\* active set and inactive voxels hold +-background
finalize(r) ==
    LET bg == r.grid.background
        on == [x \in Voxels |-> r.grid.on[x] /\ RLess(RAbs(r.grid.val[x]), bg)]
    IN  [r EXCEPT !.grid.on = on,
                  !.grid.val = [x \in Voxels |->
                                  IF on[x] THEN r.grid.val[x]
                                  ELSE IF r.grid.val[x].n < 0 THEN RNeg(bg) ELSE bg],
                  !.idx = [x \in Voxels |-> IF on[x] THEN r.idx[x] ELSE -1]]

ignoredParticles(r) == r.minCount > 0 \/ r.maxCount > 0

(***************************************************************************)
(* Point topology conversion.  The point mask is the set of voxel indices  *)
(* holding at least one point; it is followed over a range wider than the  *)
(* window so that growth from outside the window is seen.                  *)
(***************************************************************************)
Reach == 2 * NumVoxels
MaskRange == (0 - Reach) .. (NumVoxels - 1 + Reach)

\* GUvdbCreatePointMaskGrid(transform, ptGeo)
GUvdbCreatePointMaskGrid(vs, gdp) ==
    [voxelSize |-> vs,
     cells |-> {c \in MaskRange : \E n \in 1 .. Len(gdp.P) : gdp.P[n] \div vs = c}]

Dilate(cells, k) == {c \in MaskRange : \E o \in cells : Abs(c - o) <= k}
Erode(cells, k) ==
    {c \in cells : \A o \in MaskRange : Abs(c - o) <= k => o \in cells}

\* distance in voxels from cell c to the nearest cell on the other side of
\* the surface of the region
CellDist(cells, c) ==
    LET other == IF c \in cells THEN MaskRange \ cells ELSE cells
    IN  IF other = {} THEN 2 * Reach + NumVoxels
        ELSE CHOOSE k \in 1 .. (2 * Reach + NumVoxels) :
                 /\ \E o \in other : Abs(c - o) = k
                 /\ \A o \in other : Abs(c - o) >= k

\* tools::topologyToLevelSet(mask, halfWidth, closing, dilation, smoothing):
\* dilation, then closing (grow then shrink), then a level set with a band
\* of halfWidth voxels, background halfWidth * voxelSize.  An interrupted
\* build stops with a partial result: done = FALSE leaves the field empty.
topologyToLevelSet(mask, halfWidth, closing, dilation, smoothing, done) ==
    LET vs == mask.voxelSize
        bg == R(halfWidth * vs)
        region == Erode(Dilate(Dilate(mask.cells, dilation), closing), closing)
        sd(x) == IF x \in region
                 THEN RMax(RNeg(R((CellDist(region, x) * 2 - 1) * vs)), RNeg(RMul(bg, R(2))))
                 ELSE RMin(R((CellDist(region, x) * 2 - 1) * vs), RMul(bg, R(2)))
        half(x) == RDivI(sd(x), 2)
        on == [x \in Voxels |-> done /\ region # {} /\ RLess(RAbs(half(x)), bg)]
    IN  Grid("GRID_LEVEL_SET", "float", vs, bg,
             [x \in Voxels |-> IF on[x] THEN half(x)
                               ELSE IF done /\ x \in region THEN RNeg(bg) ELSE bg],
             on)

(***************************************************************************)
(* CSG and conversion tools on level sets.                                 *)
(***************************************************************************)
\* tools::csgUnion(A, B): where A holds nodes the voxels are combined by
\* minimum; where A is one outside tile B's nodes are moved into A, their
\* inactive values reset to A's background and their active values kept; A
\* keeps its own background and transform
csgUnion(a, b) ==
    IF \E x \in Voxels : a.on[x] \/ a.val[x].n < 0
    THEN [a EXCEPT !.val = [x \in Voxels |-> RMin(a.val[x], b.val[x])],
                   !.on = [x \in Voxels |->
                             IF RLess(b.val[x], a.val[x]) THEN b.on[x] ELSE a.on[x]]]
    ELSE [a EXCEPT !.val = [x \in Voxels |->
                              IF b.on[x] THEN b.val[x]
                              ELSE IF b.val[x].n < 0 THEN RNeg(a.background)
                              ELSE a.background],
                   !.on = b.on]

\* tools::csgDifference(A, B): A minus B, per voxel max(a, -b)
csgDifference(a, b) ==
    [a EXCEPT !.val = [x \in Voxels |-> RMax(a.val[x], RNeg(b.val[x]))],
              !.on = [x \in Voxels |->
                        IF RLess(a.val[x], RNeg(b.val[x])) THEN b.on[x] ELSE a.on[x]]]

\* tools::sdfToFogVolume(grid): the interior is active with density one, the
\* interior part of the band is remapped to (0, 1], the exterior is zero,
\* inactive; the background becomes zero
sdfToFogVolume(g) ==
    LET dens(x) == IF g.val[x].n < 0
                   THEN RMin(R(1), RMul(RNeg(g.val[x]), Frac(g.background.d, g.background.n)))
                   ELSE R(0)
    IN  [g EXCEPT !.gridClass = "GRID_FOG_VOLUME",
                  !.background = R(0),
                  !.val = [x \in Voxels |-> dens(x)],
                  !.on = [x \in Voxels |-> g.val[x].n < 0]]

\* Grid::deepCopy: a new grid with the same content
deepCopy(g) == g

(***************************************************************************)
(* The node: parameters, inputs, cache, and the state of one cook.         *)
(***************************************************************************)
VARIABLES
    parm,        \* the node's parameters (evalInt / evalFloat / evalString)
    ptGeo,       \* input 0: the points
    refGeo,      \* input 1: whether it is connected, and its first VDB primitive
    esc,         \* whether the user interrupts this cook
    last,        \* the detail as the cook before this one left it
    edits,       \* the number of parameter changes made in the parameter pane
    mVoxelSize,  \* Cache::mVoxelSize
    pc,          \* position of the cook
    lv,          \* the cook's local variables
    boss,        \* hvdb::Interrupter: wasInterrupted()
    gdp,         \* the output detail: the exported VDB primitives
    msgs,        \* addError / addWarning / addMessage
    stages       \* the pipeline stages started so far, in order

vars == <<parm, ptGeo, refGeo, esc, last, edits, mVoxelSize, pc, lv, boss, gdp, msgs, stages>>

NoGrid == [tree |-> -1, grid |-> FloatGridCreate(R(0))]
NoRaster == [Raster(FloatGridCreate(R(0))) EXCEPT !.minCount = -1]
NoMask == [voxelSize |-> 0, cells |-> {}]
NoPrim == [FloatGridCreate(R(0)) EXCEPT !.gridClass = "none"]
NoGeo == [exists |-> FALSE, prim |-> NoPrim]

NoMsgs == [errors |-> <<>>, warnings |-> <<>>, messages |-> <<>>]
Msg(text) == <<text, 0, 0>>

(***************************************************************************)
(* The inputs the model follows.                                           *)
(***************************************************************************)
VoxelSizes == -1 .. MaxVoxelSize
HalfBands == {R(h) : h \in 1 .. MaxHalfBand}

Positions == {2}
Radii == {1, 3}

\* the point attributes besides P, pscale and v: storage, tuple size, type
\* info, whether the attribute has a tuple interface, and the default
Attrib(storage, tupleSize, typeInfo, aifTuple) ==
    [storage |-> storage, tupleSize |-> tupleSize, typeInfo |-> typeInfo,
     aifTuple |-> aifTuple, default |-> 0]

PointAttribs ==
    [Cd |-> Attrib("GA_STORE_REAL32", 3, "GA_TYPE_COLOR", TRUE),
     id |-> Attrib("GA_STORE_INT32", 1, "GA_TYPE_VOID", TRUE),
     uv |-> Attrib("GA_STORE_REAL16", 2, "GA_TYPE_VOID", TRUE),
     name |-> Attrib("GA_STORE_STRING", 1, "GA_TYPE_VOID", TRUE),
     grp |-> Attrib("GA_STORE_INT32", 1, "GA_TYPE_VOID", FALSE),
     a |-> Attrib("GA_STORE_REAL32", 1, "GA_TYPE_VOID", TRUE)]

\* the storage kinds, tuple sizes and type infos of a numeric point attribute
AttribKinds ==
    {Attrib(st, k, ty, TRUE) :
        st \in {"GA_STORE_INT16", "GA_STORE_INT32", "GA_STORE_INT64", "GA_STORE_REAL16",
                "GA_STORE_REAL32", "GA_STORE_REAL64"},
        k \in 1 .. MaxTupleSize,
        ty \in {"GA_TYPE_VOID", "GA_TYPE_COLOR", "GA_TYPE_POINT", "GA_TYPE_HPOINT",
                "GA_TYPE_VECTOR", "GA_TYPE_NORMAL"}}

Geometries ==
    UNION {{[P |-> ps, pscale |-> rs, v |-> [k \in 1 .. n |-> 2],
             hasPscale |-> hp, hasV |-> hv, attribs |-> PointAttribs] :
               ps \in [1 .. n -> Positions], rs \in [1 .. n -> Radii],
               hp \in BOOLEAN, hv \in BOOLEAN} : n \in 0 .. MaxParticles}

\* a reference level set: one sphere rasterized into an empty field
RefLevelSet(type, vs, bg, pos) ==
    LET g == setTransform(setGridClass(FloatGridCreate(bg), "GRID_LEVEL_SET"), vs)
        r == finalize(MakeSphere(Raster(g), 0, R(pos), R(2)))
    IN  [r.grid EXCEPT !.valueType = type]

RefFog(vs) ==
    [setTransform(FloatGridCreate(R(0)), vs) EXCEPT !.gridClass = "GRID_FOG_VOLUME"]

RefGrids ==
    {RefLevelSet("float", 2, R(3), 1), RefLevelSet("float", 3, R(4), 100),
     RefLevelSet("float", 3, R(3), 1), RefLevelSet("float", 1, R(3), 1),
     RefLevelSet("double", 2, R(3), 1), RefFog(3)}

RefInputs ==
    {NoGeo, [exists |-> TRUE, prim |-> NoPrim]}
        \cup {[exists |-> TRUE, prim |-> g] : g \in RefGrids}

BaseGeo ==
    [P |-> <<2>>, pscale |-> <<3>>, v |-> <<2>>, hasPscale |-> TRUE, hasV |-> FALSE,
     attribs |-> PointAttribs]

Request(name) == [attribute |-> name, attributeGridName |-> "", vecType |-> 0]
Named(name, gridName) == [Request(name) EXCEPT !.attributeGridName = gridName]

\* two particles at the same distance from the voxel between them
TieGeo ==
    [P |-> <<2, 6>>, pscale |-> <<3, 3>>, v |-> <<2, 2>>, hasPscale |-> TRUE, hasV |-> FALSE,
     attribs |-> PointAttribs]

BaseParm ==
    [voxelsize |-> MinVoxelSize, builddistance |-> TRUE, buildfog |-> FALSE,
     buildmask |-> FALSE, attrList |-> 0, attribute |-> <<>>,
     useworldspace |-> FALSE, halfbandvoxels |-> R(2), halfband |-> R(1),
     merge |-> FALSE, conversion |-> 0, boundinglimit |-> Frac(1, 2),
     particlescale |-> R(1), velocityscale |-> R(1), minradius |-> R(0),
     velocitytrails |-> FALSE, trailresolution |-> R(1),
     dilation |-> 1, closing |-> 0, smoothing |-> 0,
     distancename |-> "surface", fogname |-> "density", maskname |-> "boundingvolume"]

\* the selection of outputs, the reference input, merge, conversion and
\* interruption, on one point, at the voxel sizes up to the smallest valid one
FlowInputs ==
    {<<[BaseParm EXCEPT !.voxelsize = vs, !.builddistance = bd, !.buildfog = bf,
                        !.buildmask = bm, !.attrList = Len(at), !.attribute = at,
                        !.merge = mg, !.conversion = cv],
       BaseGeo, ref>> :
        vs \in {v \in VoxelSizes : v <= MinVoxelSize},
        bd \in BOOLEAN, bf \in BOOLEAN, bm \in BOOLEAN,
        at \in {<<>>, <<Request("Cd")>>}, mg \in BOOLEAN, cv \in {0, 1},
        ref \in RefInputs}

\* half-band units and widths against the reference input and the mask offset
BandInputs ==
    {<<[BaseParm EXCEPT !.voxelsize = vs, !.buildmask = TRUE,
                        !.useworldspace = u[1], !.halfbandvoxels = u[2], !.halfband = u[3],
                        !.merge = mg, !.conversion = cv, !.boundinglimit = bl],
       BaseGeo, ref>> :
        vs \in MinVoxelSize .. MaxVoxelSize,
        u \in {<<FALSE, h, R(1)>> : h \in HalfBands}
                \cup {<<TRUE, R(2), h>> : h \in HalfBands},
        mg \in BOOLEAN, cv \in {0, 1}, bl \in {R(0), Frac(1, 2), R(1)},
        ref \in RefInputs}

\* the points: count, radii, the radius and velocity attributes, the
\* minimum radius, trails, and the requested attributes
ParticleInputs ==
    {<<[BaseParm EXCEPT !.buildmask = bm, !.minradius = mr, !.velocitytrails = vt,
                        !.attrList = Len(at), !.attribute = at],
       geo, NoGeo>> :
        bm \in BOOLEAN, mr \in {R(0), Frac(3, 2)}, vt \in BOOLEAN,
        at \in {<<>>, <<Request("point_list_index")>>, <<Request("nosuch"), Request("id")>>},
        geo \in Geometries}

\* the mask: both conversions, the dilation of the points conversion, the
\* particle scale and the bounding limit, inside and outside its range
MaskInputs ==
    {<<[BaseParm EXCEPT !.buildmask = TRUE, !.conversion = cv, !.dilation = dl,
                        !.particlescale = ps, !.boundinglimit = bl],
       BaseGeo, NoGeo>> :
        cv \in {0, 1}, dl \in 0 .. MaxDilation, ps \in {R(0), R(1)},
        bl \in {Frac(-1, 2), R(0), Frac(1, 2), R(1), Frac(3, 2)}}

\* one requested attribute of every kind, under its own or a custom name
KindInputs ==
    {<<[BaseParm EXCEPT !.attrList = 1, !.attribute = <<Named("a", nm)>>],
       [TieGeo EXCEPT !.attribs.a = kind], NoGeo>> :
        nm \in {"", "out"}, kind \in AttribKinds}

\* the lists of requested attributes
Requests ==
    {Request(nm) : nm \in {"Cd", "uv", "name", "grp", "nosuch", "point_list_index"}}
        \cup {Named("point_list_index", "closest"), Named("point_list_index", "idx")}
ListInputs ==
    {<<[BaseParm EXCEPT !.attrList = Len(at), !.attribute = at], TieGeo, NoGeo>> :
        at \in UNION {[1 .. n -> Requests] : n \in 1 .. MaxRequests}}

\* no cook has been made yet
NoLast == [cooked |-> FALSE, interrupted |-> FALSE, gdp |-> <<>>]

LvInit ==
    [background |-> R(0), transform |-> 0, paList |-> ParticleList(BaseGeo, R(1), R(1)),
     outputGrid |-> NoGrid, nextTree |-> 0,
     doSphereConversion |-> TRUE, bandWidth |-> 0, pointMaskGrid |-> NoMask,
     raster |-> NoRaster, offset |-> R(0), radiusScale |-> R(1),
     maxGrid |-> NoGrid, minGrid |-> NoGrid, unionA |-> NoGrid.grid,
     unionB |-> NoGrid.grid, merging |-> FALSE, intrAt |-> -1, intrPc |-> "",
     intrOut |-> 0, increase |-> 0, decrease |-> 0, passes |-> <<>>,
     pointAttributes |-> <<>>, idxTree |-> -1, writes |-> [x \in Voxels |-> 0]]

Init ==
    /\ \/ \E in \in FlowInputs :
              parm = in[1] /\ ptGeo = in[2] /\ refGeo = in[3] /\ esc \in BOOLEAN
       \/ \E in \in BandInputs \cup ParticleInputs \cup MaskInputs \cup KindInputs
                       \cup ListInputs :
              parm = in[1] /\ ptGeo = in[2] /\ refGeo = in[3] /\ esc = FALSE
    /\ last = NoLast
    /\ edits = 0
    \* float mVoxelSize = 0.1f, scaled to the voxel sizes followed here
    /\ mVoxelSize = MinVoxelSize
    /\ pc = "idle"
    /\ lv = LvInit
    /\ boss = FALSE
    /\ gdp = <<>>
    /\ msgs = NoMsgs
    /\ stages = <<>>

(***************************************************************************)
(* cookVDBSop, stage by stage.                                             *)
(***************************************************************************)
addError(m, e) == [m EXCEPT !.errors = Append(@, e)]
addWarning(m, w) == [m EXCEPT !.warnings = Append(@, w)]
addMessage(m, t) == [m EXCEPT !.messages = Append(@, t)]

ErrVoxelSize == Msg("The voxel size is too small.")
ErrNoPrims == Msg("Second input has no VDB primitives.")
WarnNoOutput == Msg("No output selected")
WarnNotFloat ==
    Msg("Cannot write into the selected reference grid because it is not a float grid.")
WarnNotLevelSet == Msg("Can only write directly into a level set grid.")
WarnTrails == Msg("Velocity trails require a velocity point attribute named 'v' of type 3fv.")
NoteMatching == Msg("Note: Matching reference level set half-band width and background value.")
WarnIgnored(r) == <<"Ignored small and large particles", r.minCount, r.maxCount>>

\* hvdb::createVdbPrimitive(gdp, grid, name): the primitive shares the grid's tree
createVdbPrimitive(out, h, name) ==
    Append(out, [name |-> name, tree |-> h.tree, grid |-> h.grid])

\* a grid name: the text and, for the components of a tuple, the "_c" suffix
Name(text) == <<text, -1>>

\* a grid changed in place is seen through every primitive sharing its tree
InPlace(out, h) ==
    [k \in 1 .. Len(out) |-> IF out[k].tree = h.tree THEN [out[k] EXCEPT !.grid = h.grid]
                             ELSE out[k]]

\* if (mVoxelSize < 1e-5)
\* the check as a test for a non-positive voxel size only
VoxelSizeTooSmall_NonPositive(vs) == vs <= 0
VoxelSizeTooSmall(vs) == vs < MinVoxelSize

outputLevelSetGrid(p) == p.builddistance
outputFogVolumeGrid(p) == p.buildfog
outputMaskVolumeGrid(p) == p.buildmask
outputAttributeGrid(p) == p.attrList > 0

\* the check made of the distance and the fog output only
NoOutputSelected_IgnoringAttributes(p) ==
    ~outputFogVolumeGrid(p) /\ ~outputLevelSetGrid(p)
\* if (!outputFogVolumeGrid && !outputLevelSetGrid && !outputAttributeGrid)
NoOutputSelected(p) ==
    ~outputFogVolumeGrid(p) /\ ~outputLevelSetGrid(p) /\ ~outputAttributeGrid(p)

\* the background implied by the UI parameters
UIBackground(p, vs) ==
    IF p.useworldspace THEN p.halfband ELSE RMul(R(vs), p.halfbandvoxels)

isLevelSet(prim) == prim.gridClass = "GRID_LEVEL_SET"

\* match the narrow band width: a level set of type float
MatchesBand(prim) == isLevelSet(prim) /\ prim.valueType = "float"

\* the copy taken without the cast to a float grid
CastFloatCopy_Unchecked(prim, tree) == [tree |-> tree, grid |-> deepCopy(prim)]

\* gridPtrCast<FloatGrid>(deepCopyGrid()): null unless the grid is a float grid
CastFloatCopy(prim, tree) ==
    IF prim.valueType = "float" THEN [tree |-> tree, grid |-> deepCopy(prim)] ELSE NoGrid

\* int(std::ceil(background / mVoxelSize))
BandWidth(bg, vs) == RCeil(RDivI(bg, vs))

\* the clamp taken of the magnitude of the offset
ClampOffset_Magnitude(x) == RMin(RAbs(x), R(1))

\* std::min(std::max(offset, 0.0), 1.0)
ClampOffset(x) == RMin(RMax(x, R(0)), R(1))

\* the radius attribute tested before the trails
RasterMode_RadiusFirst(p, pa) ==
    IF hasRadius(pa) THEN "spheres"
    ELSE IF p.velocitytrails /\ hasVelocity(pa) THEN "trails"
    ELSE "fixed"

\* convert / convertWithAttributes: the rasterization mode, then finalize
RasterMode(p, pa) ==
    IF p.velocitytrails /\ hasVelocity(pa) THEN "trails"
    ELSE IF hasRadius(pa) THEN "spheres"
    ELSE "fixed"

\* the conversion with the minimum radius of the rasterizer left at zero
Convert_RminUnset(p, pa, geo, grid, order) ==
    LET r == Raster(grid)
        mode == RasterMode(p, pa)
    IN  finalize(
            IF mode = "trails"
            THEN rasterizeTrails(r, pa, geo, p.trailresolution, R(0), order)
            ELSE IF mode = "spheres"
            THEN rasterizeSpheres(r, pa, geo, R(0), order)
            ELSE rasterizeSpheresFixed(r, geo, radiusMult(pa), R(0), order))

Convert(p, pa, geo, grid, order) ==
    LET r == Raster(grid)
        mode == RasterMode(p, pa)
    IN  finalize(
            IF mode = "trails"
            THEN rasterizeTrails(r, pa, geo, p.trailresolution, p.minradius, order)
            ELSE IF mode = "spheres"
            THEN rasterizeSpheres(r, pa, geo, p.minradius, order)
            ELSE rasterizeSpheresFixed(r, geo, radiusMult(pa), p.minradius, order))

\* the orders in which the particles of a pass can reach the field
Orders(geo) ==
    {o \in [1 .. size(geo) -> 0 .. (size(geo) - 1)] :
        \A i, j \in 1 .. size(geo) : o[i] = o[j] => i = j}

\* the particles an interruptible pass gets through: all of them unless the
\* interrupter has fired
Progress(interrupted, geo) ==
    IF interrupted
    THEN {SubSeq(o, 1, n) : o \in Orders(geo), n \in 0 .. size(geo)}
    ELSE Orders(geo)

\* raster.attributeGrid(): the closest point index grid
AttributeGrid(r, tree) ==
    [tree |-> tree,
     grid |-> Grid("GRID_UNKNOWN", "int32", r.grid.voxelSize, R(0), r.idx,
                   [x \in Voxels |-> r.idx[x] # -1])]

\* the value of component c of attribute name at point n
AttrValue(name, n, c) == 10 * (n + 1) + c

\* AttributeDetail: the default name of a descriptor
DetailName(name, info, c, isVector) ==
    IF ~isVector /\ info.tupleSize # 1
    THEN <<name, c>> ELSE <<name, -1>>

\* every scalar descriptor reading component 0 of its attribute
addAttributeDetails_FirstComponent(list, valueType, name, info, customName, vecType) ==
    IF vecType # -1
    THEN Append(list, [attribute |-> name, valueType |-> valueType, component |-> 0,
                       isVector |-> TRUE, vecType |-> vecType, default |-> info.default,
                       name |-> IF customName # "" THEN <<customName, -1>>
                                ELSE DetailName(name, info, 0, TRUE)])
    ELSE list \o [c1 \in 1 .. info.tupleSize |->
                    [attribute |-> name, valueType |-> valueType, component |-> 0,
                     isVector |-> FALSE, vecType |-> -1, default |-> info.default,
                     name |-> IF customName # ""
                              THEN <<customName, IF info.tupleSize # 1 THEN c1 - 1 ELSE -1>>
                              ELSE DetailName(name, info, c1 - 1, FALSE)]]

\* addAttributeDetails<ValueType>
addAttributeDetails(list, valueType, name, info, customName, vecType) ==
    IF vecType # -1
    THEN Append(list, [attribute |-> name, valueType |-> valueType, component |-> 0,
                       isVector |-> TRUE, vecType |-> vecType, default |-> info.default,
                       name |-> IF customName # "" THEN <<customName, -1>>
                                ELSE DetailName(name, info, 0, TRUE)])
    ELSE list \o [c1 \in 1 .. info.tupleSize |->
                    [attribute |-> name, valueType |-> valueType, component |-> c1 - 1,
                     isVector |-> FALSE, vecType |-> -1, default |-> info.default,
                     name |-> IF customName # ""
                              THEN <<customName, IF info.tupleSize # 1 THEN c1 - 1 ELSE -1>>
                              ELSE DetailName(name, info, c1 - 1, FALSE)]]

\* the type info of the attribute left out of account
interpertAsVector_Never(info) == FALSE

interpertAsVector(info) ==
    info.typeInfo \in {"GA_TYPE_HPOINT", "GA_TYPE_POINT", "GA_TYPE_VECTOR", "GA_TYPE_NORMAL"}

WarnSkippedName(name) == <<"Skipped unrecognized attribute", 0, 0>>
WarnSkippedType == Msg("Skipped unrecognized attribute type")

\* an attribute skipped without its warning
Skip_Silently(acc, warning) == acc

\* addWarning(...); continue;
Skip(acc, warning) == [acc EXCEPT !.warnings = Append(@, warning)]

\* constructGenericAtttributeList: [list, instance, warnings]
constructGenericAtttributeList(p, geo) ==
    LET RECURSIVE Go(_, _)
        Go(acc, i) ==
            IF i > p.attrList THEN acc
            ELSE LET req == p.attribute[i]
                     name == req.attribute
                 IN  IF name = "" THEN Go(acc, i + 1)
                     ELSE IF name = "point_list_index"
                     THEN Go([acc EXCEPT !.instance = i], i + 1)
                     ELSE IF name \notin DOMAIN geo.attribs
                     THEN Go(Skip(acc, WarnSkippedName(name)), i + 1)
                     ELSE LET info == geo.attribs[name]
                              vec == interpertAsVector(info) \/ info.tupleSize = 3
                              add(vt, st) ==
                                  [acc EXCEPT !.list =
                                      IF vec /\ vt # ""
                                      THEN addAttributeDetails(@, vt, name, info,
                                               req.attributeGridName, req.vecType)
                                      ELSE addAttributeDetails(@, st, name, info,
                                               req.attributeGridName, -1)]
                          IN  IF ~info.aifTuple
                              THEN Go(Skip(acc, WarnSkippedType), i + 1)
                              ELSE IF info.storage \in {"GA_STORE_INT16", "GA_STORE_INT32"}
                              THEN Go(add("Vec3i", "Int32"), i + 1)
                              ELSE IF info.storage = "GA_STORE_INT64"
                              THEN Go(add("", "Int64"), i + 1)
                              ELSE IF info.storage \in {"GA_STORE_REAL16", "GA_STORE_REAL32"}
                              THEN Go(add("Vec3s", "float"), i + 1)
                              ELSE IF info.storage = "GA_STORE_REAL64"
                              THEN Go(add("Vec3d", "double"), i + 1)
                              ELSE Go(Skip(acc, WarnSkippedType), i + 1)
    IN  Go([list |-> <<>>, instance |-> -1, warnings |-> <<>>], 1)

\* the orders followed for the tasks of the threaded transfer, one per
\* voxel: from every voxel round, upwards and downwards, so that every two
\* tasks run in either order
TaskOrders ==
    {[k \in 1 .. NumVoxels |-> (first + step * k) % NumVoxels] :
        first \in Voxels, step \in {1, NumVoxels - 1}}

\* PointAttrTransfer: the grid starts as the topology copy of the index grid
\* holding the default value; the task of every active voxel of the index
\* grid writes the attribute value of the point whose number the index grid
\* stores there
TransferGrid(d, idx, vs, tasks) ==
    LET value(x) ==
            IF d.isVector
            THEN <<AttrValue(d.attribute, idx.val[x], 0),
                   AttrValue(d.attribute, idx.val[x], 1),
                   AttrValue(d.attribute, idx.val[x], 2)>>
            ELSE <<AttrValue(d.attribute, idx.val[x], d.component)>>
        RECURSIVE Go(_, _)
        Go(val, k) ==
            IF k > Len(tasks) THEN val
            ELSE Go(IF idx.on[tasks[k]] THEN [val EXCEPT ![tasks[k]] = value(tasks[k])]
                    ELSE val,
                    k + 1)
    IN  Grid("GRID_UNKNOWN", d.valueType, vs, d.default,
             Go([x \in Voxels |-> <<d.default>>], 1), idx.on)

\* the number of writes the transfer makes into the slot of each voxel
TransferWrites(idx, tasks) ==
    [x \in Voxels |-> Cardinality({k \in 1 .. Len(tasks) : tasks[k] = x /\ idx.on[x]})]

\* transferAttributes: the primitives added to the output detail
transferAttributes(out, list, idx, vs, tree, tasks) ==
    out \o [k \in 1 .. Len(list) |->
              [name |-> list[k].name, tree |-> tree + k - 1,
               grid |-> TransferGrid(list[k], idx, vs, tasks)]]

\* the index grid exported under "point_list_index" whatever the entry says
IndexGridName_Reserved(gridNameStr) == "point_list_index"

\* if (gridNameStr.length() == 0) gridNameStr = "point_list_index";
IndexGridName(gridNameStr) ==
    IF gridNameStr = "" THEN "point_list_index" ELSE gridNameStr

CookBegin ==
    /\ pc = "idle"
    /\ boss' = FALSE
    /\ gdp' = <<>>
    /\ stages' = <<>>
    /\ lv' = LvInit
    /\ mVoxelSize' = parm.voxelsize
    /\ IF VoxelSizeTooSmall(parm.voxelsize)
       THEN msgs' = addError(NoMsgs, ErrVoxelSize) /\ pc' = "done"
       ELSE msgs' = NoMsgs /\ pc' = "select"
    /\ UNCHANGED <<parm, ptGeo, refGeo, esc, last, edits>>

SelectOutputs ==
    /\ pc = "select"
    /\ IF NoOutputSelected(parm)
       THEN msgs' = addWarning(msgs, WarnNoOutput) /\ pc' = "done"
       ELSE msgs' = msgs /\ pc' = "setup"
    /\ UNCHANGED <<parm, ptGeo, refGeo, esc, last, edits, mVoxelSize, lv, boss, gdp, stages>>

Setup ==
    /\ pc = "setup"
    /\ lv' = [lv EXCEPT !.paList = ParticleList(ptGeo, parm.particlescale, parm.velocityscale),
                        !.background = UIBackground(parm, mVoxelSize),
                        !.transform = mVoxelSize]
    /\ pc' = "reference"
    /\ UNCHANGED <<parm, ptGeo, refGeo, esc, last, edits, mVoxelSize, boss, gdp, msgs, stages>>

\* Optionally copy reference grid and/or transform.
Reference ==
    /\ pc = "reference"
    /\ IF ~refGeo.exists
       THEN /\ pc' = "convert"
            /\ UNCHANGED <<lv, mVoxelSize, msgs>>
       ELSE IF refGeo.prim.gridClass = "none"
       THEN /\ msgs' = addError(msgs, ErrNoPrims)
            /\ pc' = "done"
            /\ UNCHANGED <<lv, mVoxelSize>>
       ELSE LET prim == refGeo.prim
                match == MatchesBand(prim)
                copy == CastFloatCopy(prim, lv.nextTree)
                m1 == IF match THEN addMessage(msgs, NoteMatching) ELSE msgs
            IN  /\ mVoxelSize' = prim.voxelSize
                /\ lv' = [lv EXCEPT
                            !.transform = prim.voxelSize,
                            !.background = IF match THEN prim.background ELSE @,
                            !.outputGrid = IF parm.merge /\ isLevelSet(prim) THEN copy ELSE @,
                            !.nextTree = IF parm.merge /\ isLevelSet(prim) /\ copy.tree # -1
                                         THEN @ + 1 ELSE @]
                /\ msgs' = IF ~parm.merge THEN m1
                           ELSE IF ~isLevelSet(prim) THEN addWarning(m1, WarnNotLevelSet)
                           ELSE IF copy.tree = -1 THEN addWarning(m1, WarnNotFloat)
                           ELSE m1
                /\ pc' = "convert"
    /\ UNCHANGED <<parm, ptGeo, refGeo, esc, last, edits, boss, gdp, stages>>

\* the conversion is left out by a check made without the interrupter
PerformConversion_Unchecked(interrupted) == TRUE

\* if (!boss.wasInterrupted())
PerformConversion(interrupted) == ~interrupted

\* the sphere conversion taken whatever the conversion parameter
DoSphereConversion_Always(p) == TRUE

\* const bool doSphereConversion = evalInt("conversion", 0, time) == 0;
DoSphereConversion(p) == p.conversion = 0

\* Perform the particle conversion.
ConvertBegin ==
    /\ pc = "convert"
    /\ IF ~PerformConversion(boss)
       THEN pc' = "done" /\ UNCHANGED <<lv, msgs>>
       ELSE LET h == IF lv.outputGrid.tree = -1
                     THEN [tree |-> lv.nextTree, grid |-> FloatGridCreate(lv.background)]
                     ELSE lv.outputGrid
                sphere == DoSphereConversion(parm)
            IN  /\ lv' = [lv EXCEPT
                            !.outputGrid =
                                [h EXCEPT !.grid = setTransform(
                                    setGridClass(h.grid, "GRID_LEVEL_SET"), lv.transform)],
                            !.nextTree = IF lv.outputGrid.tree = -1 THEN @ + 1 ELSE @,
                            !.merging = lv.outputGrid.tree # -1,
                            !.doSphereConversion = sphere,
                            !.bandWidth = BandWidth(lv.background, mVoxelSize)]
                /\ msgs' = IF sphere /\ parm.velocitytrails /\ ~hasVelocity(lv.paList)
                           THEN addWarning(msgs, WarnTrails) ELSE msgs
                /\ pc' = IF sphere THEN "rasterize" ELSE "topology"
    /\ UNCHANGED <<parm, ptGeo, refGeo, esc, last, edits, mVoxelSize, boss, gdp, stages>>

\* convert called whether or not attributes are requested
AfterPrimary_ConvertOnly(p) == "mask"

\* convertWithAttributes when attributes are requested, else convert
AfterPrimary(p) == IF outputAttributeGrid(p) THEN "transfer" ELSE "mask"

\* what one call of convert / convertWithAttributes did: the adapter's
\* radius multiplier, the particles it got through, the rasterizer's
\* counters, and whether the field was and is empty
Pass(pa, grid, r, order) ==
    [mult |-> radiusMult(pa), mode |-> RasterMode(parm, pa), processed |-> Len(order),
     minCount |-> r.minCount,
     maxCount |-> r.maxCount, usedCount |-> r.usedCount,
     fresh |-> AllBackground(grid), empty |-> AllBackground(r.grid),
     warned |-> ignoredParticles(r)]

\* convert (no attributes requested) or the rasterization of
\* convertWithAttributes, into the output grid, with its warning
Rasterize ==
    /\ pc = "rasterize"
    /\ \E order \in Progress(boss, ptGeo) :
          LET r == Convert(parm, lv.paList, ptGeo, lv.outputGrid.grid, order)
          IN  /\ lv' = [lv EXCEPT !.outputGrid.grid = r.grid, !.raster = r,
                                  !.passes = Append(@, Pass(lv.paList, lv.outputGrid.grid,
                                                            r, order))]
              /\ msgs' = IF ignoredParticles(r) THEN addWarning(msgs, WarnIgnored(r))
                         ELSE msgs
    /\ stages' = stages \o (IF lv.merging THEN <<"rasterize", "merge", "prune">>
                             ELSE <<"rasterize", "prune">>)
    /\ pc' = AfterPrimary(parm)
    /\ UNCHANGED <<parm, ptGeo, refGeo, esc, last, edits, mVoxelSize, boss, gdp>>

\* convertWithAttributes after the rasterization: Transfer point attributes.
Transfer ==
    /\ pc = "transfer"
    /\ IF boss
       THEN UNCHANGED <<lv, gdp, msgs, stages>>
       ELSE \E tasks \in TaskOrders :
            LET idx == AttributeGrid(lv.raster, lv.nextTree)
                c == constructGenericAtttributeList(parm, ptGeo)
                out == transferAttributes(gdp, c.list, idx.grid,
                                          lv.outputGrid.grid.voxelSize, lv.nextTree + 1,
                                          tasks)
                gridName == parm.attribute[c.instance].attributeGridName
            IN  /\ gdp' = IF c.instance > -1
                          THEN createVdbPrimitive(out, idx, Name(IndexGridName(gridName)))
                          ELSE out
                /\ msgs' = [msgs EXCEPT !.warnings = @ \o c.warnings]
                /\ lv' = [lv EXCEPT !.nextTree = @ + 1 + Len(c.list),
                                    !.pointAttributes = c.list,
                                    !.idxTree = idx.tree,
                                    !.writes = IF c.list = <<>> THEN @
                                               ELSE TransferWrites(idx.grid, tasks)]
                /\ stages' = Append(stages, "transfer")
    /\ pc' = "mask"
    /\ UNCHANGED <<parm, ptGeo, refGeo, esc, last, edits, mVoxelSize, boss>>

\* the point topology conversion: point mask, level set, union into the output
Topology ==
    /\ pc = "topology"
    /\ LET mask == GUvdbCreatePointMaskGrid(lv.transform, ptGeo)
           sdfGrid == topologyToLevelSet(mask, lv.bandWidth, parm.closing, parm.dilation,
                                         parm.smoothing, ~boss)
       IN  lv' = [lv EXCEPT !.pointMaskGrid = mask,
                            !.unionA = lv.outputGrid.grid,
                            !.unionB = sdfGrid,
                            !.outputGrid.grid = csgUnion(@, sdfGrid)]
    /\ stages' = stages \o (IF lv.merging THEN <<"topology", "merge", "union">>
                             ELSE <<"topology", "union">>)
    /\ pc' = "mask"
    /\ UNCHANGED <<parm, ptGeo, refGeo, esc, last, edits, mVoxelSize, boss, gdp, msgs>>

\* the offset added to the scale and taken from it
MaskRadiusMult_Additive(radiusScale, offset) ==
    [max |-> RAdd(radiusScale, offset), min |-> RSub(radiusScale, offset)]

\* the radius multipliers of the two mask passes of the sphere conversion
MaskRadiusMult(radiusScale, offset) ==
    [max |-> RMul(radiusScale, RAdd(R(1), offset)),
     min |-> RMul(radiusScale, RSub(R(1), offset))]

\* the dilation counts of the two mask fields of the topology conversion
MaskDilation(dilation, offset) ==
    LET dx == R(IF dilation < 1 THEN dilation ELSE 1)
    IN  [increase |-> RCeil(RMul(dx, RAdd(R(1), offset))),
         decrease |-> RTrunc(RMul(dx, RSub(R(1), offset)))]

EmptyLevelSet(bg, vs, tree) ==
    [tree |-> tree,
     grid |-> setTransform(setGridClass(FloatGridCreate(bg), "GRID_LEVEL_SET"), vs)]

MaskBegin ==
    /\ pc = "mask"
    /\ IF ~outputMaskVolumeGrid(parm)
       THEN pc' = "distance" /\ UNCHANGED <<lv, stages>>
       ELSE LET offset == ClampOffset(parm.boundinglimit)
            IN  /\ lv' = [lv EXCEPT
                            !.radiusScale = radiusMult(lv.paList),
                            !.offset = offset,
                            !.maxGrid = EmptyLevelSet(lv.background, lv.transform, lv.nextTree),
                            !.minGrid = EmptyLevelSet(lv.background, lv.transform,
                                                      lv.nextTree + 1),
                            !.nextTree = @ + 2]
                /\ stages' = Append(stages, "mask")
                /\ pc' = IF RLess(R(0), offset) THEN "maskmax" ELSE "maskcombine"
    /\ UNCHANGED <<parm, ptGeo, refGeo, esc, last, edits, mVoxelSize, boss, gdp, msgs>>

MaskMax ==
    /\ pc = "maskmax"
    /\ IF lv.doSphereConversion
       THEN \E order \in Progress(boss, ptGeo) :
              LET pa == setRadiusMult(lv.paList,
                                      MaskRadiusMult(lv.radiusScale, lv.offset).max)
                  r == Convert(parm, pa, ptGeo, lv.maxGrid.grid, order)
              IN  /\ lv' = [lv EXCEPT !.paList = pa, !.maxGrid.grid = r.grid,
                                      !.passes = Append(@, Pass(pa, lv.maxGrid.grid,
                                                                r, order))]
                  /\ msgs' = IF ignoredParticles(r) THEN addWarning(msgs, WarnIgnored(r))
                             ELSE msgs
                  /\ stages' = stages \o <<"maskraster", "maskprune">>
       ELSE LET mask == IF lv.pointMaskGrid.voxelSize = 0
                        THEN GUvdbCreatePointMaskGrid(lv.transform, ptGeo)
                        ELSE lv.pointMaskGrid
                d == MaskDilation(parm.dilation, lv.offset)
                g == topologyToLevelSet(mask, lv.bandWidth, parm.closing, d.increase,
                                        parm.smoothing, ~boss)
            IN  /\ lv' = [lv EXCEPT !.pointMaskGrid = mask,
                                    !.increase = d.increase,
                                    !.decrease = d.decrease,
                                    !.maxGrid = [tree |-> lv.nextTree, grid |-> g],
                                    !.nextTree = @ + 1]
                /\ msgs' = msgs
                /\ stages' = Append(stages, "masktopology")
    /\ pc' = "maskmin"
    /\ UNCHANGED <<parm, ptGeo, refGeo, esc, last, edits, mVoxelSize, boss, gdp>>

MaskMin ==
    /\ pc = "maskmin"
    /\ IF lv.doSphereConversion
       THEN \E order \in Progress(boss, ptGeo) :
              LET pa == setRadiusMult(lv.paList,
                                      MaskRadiusMult(lv.radiusScale, lv.offset).min)
                  r == Convert(parm, pa, ptGeo, lv.minGrid.grid, order)
              IN  /\ lv' = [lv EXCEPT !.paList = pa, !.minGrid.grid = r.grid,
                                      !.passes = Append(@, Pass(pa, lv.minGrid.grid,
                                                                r, order))]
                  /\ msgs' = IF ignoredParticles(r) THEN addWarning(msgs, WarnIgnored(r))
                             ELSE msgs
                  /\ stages' = stages \o <<"maskraster", "maskprune">>
       ELSE LET g == topologyToLevelSet(lv.pointMaskGrid, lv.bandWidth, parm.closing,
                                        lv.decrease, parm.smoothing, ~boss)
            IN  /\ lv' = [lv EXCEPT !.minGrid = [tree |-> lv.nextTree, grid |-> g],
                                    !.nextTree = @ + 1]
                /\ msgs' = msgs
                /\ stages' = Append(stages, "masktopology")
    /\ pc' = "maskcombine"
    /\ UNCHANGED <<parm, ptGeo, refGeo, esc, last, edits, mVoxelSize, boss, gdp>>

\* csgDifference(max, min), sdfToFogVolume, and the mask primitive
MaskCombine ==
    /\ pc = "maskcombine"
    /\ LET g == sdfToFogVolume(csgDifference(lv.maxGrid.grid, lv.minGrid.grid))
       IN  /\ lv' = [lv EXCEPT !.maxGrid.grid = g]
           /\ gdp' = createVdbPrimitive(gdp, [lv.maxGrid EXCEPT !.grid = g],
                                        Name(parm.maskname))
    /\ stages' = stages \o <<"difference", "maskfog", "exportmask">>
    /\ pc' = "distance"
    /\ UNCHANGED <<parm, ptGeo, refGeo, esc, last, edits, mVoxelSize, boss, msgs>>

ExportDistance ==
    /\ pc = "distance"
    /\ IF outputLevelSetGrid(parm)
       THEN /\ gdp' = createVdbPrimitive(gdp, lv.outputGrid, Name(parm.distancename))
            /\ stages' = Append(stages, "exportdistance")
       ELSE UNCHANGED <<gdp, stages>>
    /\ pc' = "fog"
    /\ UNCHANGED <<parm, ptGeo, refGeo, esc, last, edits, mVoxelSize, lv, boss, msgs>>

\* the exported output grid itself, never a copy of it
FogTarget_InPlace(p, h, tree) == h

\* if (outputLevelSetGrid) outputGrid = outputGrid->deepCopy();
FogTarget(p, h, tree) ==
    IF outputLevelSetGrid(p) THEN [tree |-> tree, grid |-> deepCopy(h.grid)] ELSE h

\* Only duplicate the output grid if both distance and fog volume grids are exported.
ExportFog ==
    /\ pc = "fog"
    /\ IF outputFogVolumeGrid(parm)
       THEN LET h == FogTarget(parm, lv.outputGrid, lv.nextTree)
                f == [h EXCEPT !.grid = sdfToFogVolume(h.grid)]
            IN  /\ lv' = [lv EXCEPT !.outputGrid = f,
                                    !.nextTree = IF h.tree = lv.nextTree THEN @ + 1 ELSE @]
                /\ gdp' = createVdbPrimitive(InPlace(gdp, f), f, Name(parm.fogname))
                /\ stages' = stages \o <<"fog", "exportfog">>
       ELSE UNCHANGED <<lv, gdp, stages>>
    /\ pc' = "done"
    /\ UNCHANGED <<parm, ptGeo, refGeo, esc, last, edits, mVoxelSize, boss, msgs>>

\* the user interrupts the cook: boss.wasInterrupted() from now on
Interrupt ==
    /\ pc \notin {"idle", "done"}
    /\ esc
    /\ ~boss
    /\ boss' = TRUE
    /\ lv' = [lv EXCEPT !.intrAt = Len(stages), !.intrPc = pc, !.intrOut = Len(gdp)]
    /\ UNCHANGED <<parm, ptGeo, refGeo, esc, last, edits, mVoxelSize, pc, gdp, msgs, stages>>

(***************************************************************************)
(* The parameter pane between cooks.                                       *)
(***************************************************************************)
\* convertUnits: the hidden half-band parameter is recomputed from the
\* visible one with the voxel size held by the cache
convertUnits(p, voxSize) ==
    IF p.useworldspace
    THEN [p EXCEPT !.halfband = RMul(p.halfbandvoxels, R(voxSize))]
    ELSE [p EXCEPT !.halfbandvoxels = RDivI(p.halfband, voxSize)]

\* the "useworldspace" toggle is changed: its callback is convertUnitsCB
ToggleWorldSpace ==
    /\ pc \in {"idle", "done"}
    /\ edits < MaxEdits
    /\ mVoxelSize > 0
    /\ parm' = convertUnits([parm EXCEPT !.useworldspace = ~@], mVoxelSize)
    /\ edits' = edits + 1
    /\ pc' = "idle"
    /\ UNCHANGED <<ptGeo, refGeo, esc, last, mVoxelSize, lv, boss, gdp, msgs, stages>>

\* the "voxelsize" parameter is changed (range restricted to 1e-5 and above);
\* it has no callback
SetVoxelSize ==
    /\ pc \in {"idle", "done"}
    /\ edits < MaxEdits
    /\ \E v \in MinVoxelSize .. MaxVoxelSize :
          /\ v # parm.voxelsize
          /\ parm' = [parm EXCEPT !.voxelsize = v]
    /\ edits' = edits + 1
    /\ pc' = "idle"
    /\ UNCHANGED <<ptGeo, refGeo, esc, last, mVoxelSize, lv, boss, gdp, msgs, stages>>

Next ==
    \/ CookBegin
    \/ SelectOutputs
    \/ Setup
    \/ Reference
    \/ ConvertBegin
    \/ Rasterize
    \/ Transfer
    \/ Topology
    \/ MaskBegin
    \/ MaskMax
    \/ MaskMin
    \/ MaskCombine
    \/ ExportDistance
    \/ ExportFog
    \/ Interrupt

Spec == Init /\ [][Next]_vars

\* a node whose two half-band parameters agree with its voxel size, cooked
\* and edited in turn
UnitsInputs ==
    {<<[BaseParm EXCEPT !.buildfog = TRUE, !.buildmask = TRUE, !.attrList = 1,
                        !.attribute = <<Request("Cd")>>, !.conversion = cv,
                        !.useworldspace = ws, !.halfbandvoxels = R(2),
                        !.halfband = R(2 * MinVoxelSize)],
       BaseGeo, ref>> :
        cv \in {0, 1}, ws \in BOOLEAN,
        ref \in {NoGeo, [exists |-> TRUE, prim |-> RefFog(3)],
                 [exists |-> TRUE, prim |-> RefLevelSet("float", 3, R(3), 1)]}}

InitUnits ==
    /\ \E in \in UnitsInputs : parm = in[1] /\ ptGeo = in[2] /\ refGeo = in[3]
    /\ esc \in BOOLEAN
    /\ last = NoLast
    /\ edits = 0
    \* float mVoxelSize = 0.1f, scaled to the voxel sizes followed here
    /\ mVoxelSize = MinVoxelSize
    /\ pc = "idle"
    /\ lv = LvInit
    /\ boss = FALSE
    /\ gdp = <<>>
    /\ msgs = NoMsgs
    /\ stages = <<>>

NextUnits == Next \/ ToggleWorldSpace \/ SetVoxelSize

SpecUnits == InitUnits /\ [][NextUnits]_vars

(***************************************************************************)
(* A node that is cooked, has one of the inputs of the sphere conversion   *)
(* changed, and is cooked again.                                           *)
(***************************************************************************)
Velocities == {2, 4}

\* the parameters of the sphere conversion, each set to another value
SphereParmEdits(p) ==
    {[p EXCEPT !.particlescale = x] : x \in {R(1), R(2)}}
        \cup {[p EXCEPT !.velocityscale = x] : x \in {R(1), R(2)}}
        \cup {[p EXCEPT !.minradius = x] : x \in {R(0), Frac(3, 2)}}
        \cup {[p EXCEPT !.velocitytrails = x] : x \in BOOLEAN}
        \cup {[p EXCEPT !.trailresolution = x] : x \in {R(1), R(2)}}

\* the radius and velocity point attributes added, removed or given other
\* values; the points and their positions stay
PointAttributeEdits(geo) ==
    {[geo EXCEPT !.hasPscale = x] : x \in BOOLEAN}
        \cup {[geo EXCEPT !.hasV = x] : x \in BOOLEAN}
        \cup {[geo EXCEPT !.pscale = rs] : rs \in [1 .. size(geo) -> Radii]}
        \cup {[geo EXCEPT !.v = vs] : vs \in [1 .. size(geo) -> Velocities]}

\* what the finished cook leaves behind when an input changes
Finished == [cooked |-> TRUE, interrupted |-> boss, gdp |-> gdp]

\* one parameter of the sphere conversion is changed after a cook
SetSphereParm ==
    /\ pc = "done"
    /\ edits < MaxRecooks
    /\ \E q \in SphereParmEdits(parm) : q # parm /\ parm' = q
    /\ last' = Finished
    /\ edits' = edits + 1
    /\ pc' = "idle"
    /\ UNCHANGED <<ptGeo, refGeo, esc, mVoxelSize, lv, boss, gdp, msgs, stages>>

\* the radius or the velocity attribute of input 0 changes after a cook
SetPointAttribute ==
    /\ pc = "done"
    /\ edits < MaxRecooks
    /\ \E g \in PointAttributeEdits(ptGeo) : g # ptGeo /\ ptGeo' = g
    /\ last' = Finished
    /\ edits' = edits + 1
    /\ pc' = "idle"
    /\ UNCHANGED <<parm, refGeo, esc, mVoxelSize, lv, boss, gdp, msgs, stages>>

\* every output requested, on either conversion, with and without a
\* reference level set
RecookInputs ==
    {<<[BaseParm EXCEPT !.buildfog = TRUE, !.buildmask = TRUE, !.attrList = 1,
                        !.attribute = <<Request("Cd")>>, !.conversion = cv, !.merge = TRUE],
       geo, ref>> :
        cv \in {0, 1},
        geo \in {g \in Geometries : size(g) = 1 /\ g.hasPscale /\ ~g.hasV /\ g.pscale = <<3>>},
        ref \in {NoGeo, [exists |-> TRUE, prim |-> RefLevelSet("float", 2, R(3), 1)]}}

InitRecook ==
    /\ \E in \in RecookInputs : parm = in[1] /\ ptGeo = in[2] /\ refGeo = in[3]
    /\ esc \in BOOLEAN
    /\ last = NoLast
    /\ edits = 0
    /\ mVoxelSize = MinVoxelSize
    /\ pc = "idle"
    /\ lv = LvInit
    /\ boss = FALSE
    /\ gdp = <<>>
    /\ msgs = NoMsgs
    /\ stages = <<>>

NextRecook == Next \/ SetSphereParm \/ SetPointAttribute

SpecRecook == InitRecook /\ [][NextRecook]_vars

(***************************************************************************)
(* Properties of the cook.                                                 *)
(***************************************************************************)
Has(seq, m) == \E k \in 1 .. Len(seq) : seq[k] = m
Started(stage) == Has(stages, stage)
\* the conversion stage has been entered: the output grid exists and the
\* band width has been computed
ConversionBegun == pc \in {"rasterize", "transfer", "topology", "mask", "maskmax", "maskmin",
                           "maskcombine", "distance", "fog"}
                   \/ (pc = "done" /\ lv.outputGrid.tree # -1 /\ lv.transform # 0
                       /\ lv.bandWidth # 0)
ConversionRan == Started("rasterize") \/ Started("topology")
NoWorkStarted == stages = <<>> /\ gdp = <<>> /\ lv.outputGrid.tree = -1

\* C1: a voxel-size parameter below the minimum (zero and negative included)
\* ends the cook with the fatal error before any rasterization, merge, mask or
\* attribute work has started, and with no output field.
C1_DegenerateVoxelSizeAborts ==
    (pc # "idle" /\ parm.voxelsize < MinVoxelSize)
        => /\ pc = "done"
           /\ msgs.errors = <<ErrVoxelSize>>
           /\ NoWorkStarted

C1_Witness ==
    /\ pc = "done"
    /\ parm.voxelsize = 1
    /\ Has(msgs.errors, ErrVoxelSize)
    /\ parm.builddistance /\ parm.buildmask

\* C2: the cook aborts with the "No output selected" warning exactly when
\* none of the distance, fog, mask and attribute outputs is selected.
C2_AbortsIffNothingSelected ==
    (pc \notin {"idle", "select"} /\ parm.voxelsize >= MinVoxelSize)
        => (Has(msgs.warnings, WarnNoOutput)
               <=> (~parm.builddistance /\ ~parm.buildfog /\ ~parm.buildmask
                     /\ parm.attrList = 0))

EmptyReference == refGeo.exists /\ refGeo.prim.gridClass = "none"
InterruptedBeforeConversion ==
    boss /\ lv.intrPc \in {"select", "setup", "reference", "convert"}

FloatLevelSet(prim) == prim.gridClass = "GRID_LEVEL_SET" /\ prim.valueType = "float"
MergeWarned == Has(msgs.warnings, WarnNotFloat) \/ Has(msgs.warnings, WarnNotLevelSet)
\* the output grid as the conversion receives it is a new, empty level set
FreshOutput ==
    /\ ~lv.merging
    /\ pc \in {"rasterize", "topology"} =>
          (AllBackground(lv.outputGrid.grid)
              /\ lv.outputGrid.grid.background = lv.background)

\* C4 as stated: with merge requested and the reference absent or not a float
\* level set, a warning is emitted and the primary field is built standalone.
C4_MergeRefusedWithWarning ==
    (ConversionBegun /\ parm.merge
        /\ (~refGeo.exists \/ ~FloatLevelSet(refGeo.prim)))
        => (MergeWarned /\ FreshOutput)

\* C4 amended: with merge requested, a reference primitive that is not a
\* float level set is refused with a warning, an absent reference input is
\* passed over without a warning, and in both cases the primary field is
\* built standalone in a new empty field.
C4_MergeRefused ==
    (ConversionBegun /\ parm.merge) =>
        /\ (refGeo.exists /\ ~FloatLevelSet(refGeo.prim)) => (MergeWarned /\ FreshOutput)
        /\ ~refGeo.exists => (~MergeWarned /\ FreshOutput)
        /\ (refGeo.exists /\ FloatLevelSet(refGeo.prim)) => (~MergeWarned /\ lv.merging)

C4_Witness ==
    /\ pc = "rasterize"
    /\ parm.merge
    /\ refGeo.exists
    /\ refGeo.prim.gridClass = "GRID_LEVEL_SET" /\ refGeo.prim.valueType = "double"
    /\ Has(msgs.warnings, WarnNotFloat)

\* a claim about the reference adopted by the conversion
AdoptsReference(g) ==
    g.voxelSize = refGeo.prim.voxelSize /\ g.background = refGeo.prim.background

\* C5: with a reference level set, the primary field and the mask fields are
\* built with the reference's transform and background, and the notice of the
\* override is emitted.
C5_ReferenceBandAdopted ==
    (ConversionBegun /\ refGeo.exists /\ isLevelSet(refGeo.prim)) =>
        /\ Has(msgs.messages, NoteMatching)
        /\ pc \in {"rasterize", "topology", "transfer", "mask"}
              => AdoptsReference(lv.outputGrid.grid)
        /\ pc \in {"maskmax", "maskmin"} => AdoptsReference(lv.maxGrid.grid)
        /\ pc \in {"maskmax", "maskmin", "maskcombine"} => AdoptsReference(lv.minGrid.grid)

\* the field the new particles alone produce on the reference's transform
NewParticleField ==
    IF lv.doSphereConversion
    THEN Convert(parm, lv.paList, ptGeo,
                 EmptyLevelSet(refGeo.prim.background, refGeo.prim.voxelSize, 0).grid,
                 CHOOSE o \in Orders(ptGeo) : TRUE).grid
    ELSE lv.unionB

\* C6: with merge on and a float level-set reference, every voxel of the
\* primary field is the minimum of the new particle field and the reference,
\* on the sphere path and on the topology path.
C6_MergeIsMinimum ==
    (pc \in {"transfer", "mask"} /\ lv.merging /\ ~boss) =>
        \A x \in Voxels :
            lv.outputGrid.grid.val[x] = RMin(NewParticleField.val[x], refGeo.prim.val[x])

\* C7: the two fields of every CSG union have the same background value.
C7_UnionBackgroundsAgree ==
    Started("union") => lv.unionA.background = lv.unionB.background

\* the order of the stages as the claim states it
ClaimedRank(stage) ==
    CASE stage \in {"rasterize", "topology"} -> 1
      [] stage = "prune" -> 2
      [] stage = "merge" -> 3
      [] stage \in {"mask", "maskraster", "maskprune", "masktopology", "difference",
                    "maskfog", "exportmask"} -> 4
      [] stage = "transfer" -> 5
      [] OTHER -> 0

\* the order of the stages as the cook runs them
CookRank(stage) ==
    CASE stage \in {"rasterize", "topology"} -> 1
      [] stage = "merge" -> 2
      [] stage \in {"prune", "union"} -> 3
      [] stage = "transfer" -> 4
      [] stage = "mask" -> 5
      [] stage \in {"maskraster", "maskprune", "masktopology"} -> 6
      [] stage = "difference" -> 7
      [] stage = "maskfog" -> 8
      [] stage = "exportmask" -> 9
      [] stage = "exportdistance" -> 10
      [] stage = "fog" -> 11
      [] stage = "exportfog" -> 12
      [] OTHER -> 0

\* the ranked stages of a sequence of ranks never step back
RanksInOrder(r) ==
    \A i, j \in DOMAIN r : (i < j /\ r[i] # 0 /\ r[j] # 0) => r[i] <= r[j]

\* C9 as stated: the stages run in the order rasterize, prune, merge, mask,
\* attribute transfer.
C9_StageOrderAsStated ==
    RanksInOrder([k \in 1 .. Len(stages) |-> ClaimedRank(stages[k])])

\* C9 amended: the stages run one after another in the order rasterize (with
\* the merge into the reference copy), prune, attribute transfer, mask,
\* export; on the sphere path with attributes requested the transfer has run
\* by the time the mask stage starts, unless the cook was interrupted.
C9_StageOrder ==
    /\ RanksInOrder([k \in 1 .. Len(stages) |-> CookRank(stages[k])])
    /\ (Started("merge") <=> (ConversionRan /\ lv.merging))
    /\ (pc = "mask" /\ lv.doSphereConversion /\ outputAttributeGrid(parm) /\ ~boss)
          => (Started("transfer") /\ ~Started("mask"))

C9_Witness ==
    /\ pc = "done"
    /\ lv.merging
    /\ Started("transfer")
    /\ Started("exportmask")
    /\ Started("prune")

LaterStages == {"maskraster", "masktopology", "topology", "transfer", "fog"}

\* C10: once the cook is interrupted no later stage starts, no field is
\* produced after the interruption, and the interruption raises no error.
C10_CancellationStopsStages ==
    boss =>
        /\ \A k \in 1 .. Len(stages) : k > lv.intrAt => stages[k] \notin LaterStages
        /\ Len(gdp) = lv.intrOut
        /\ msgs.errors # <<>> => EmptyReference

\* C8: after changes of the voxel size and of the unit toggle the world-space
\* half-band is the voxel-count half-band times the voxel size, and in voxel
\* mode the background of a built field is halfbandvoxels times the voxel
\* size of its transform (a matched reference level set apart).
C8_HalfBandConsistent ==
    /\ (pc = "done" /\ edits > 0 /\ ~refGeo.exists)
          => parm.halfband = RMul(parm.halfbandvoxels, R(mVoxelSize))
    /\ (pc \in {"rasterize", "topology"} /\ ~parm.useworldspace
            /\ ~(refGeo.exists /\ MatchesBand(refGeo.prim)))
          => lv.outputGrid.grid.background
                = RMul(parm.halfbandvoxels, R(lv.outputGrid.grid.voxelSize))

(***************************************************************************)
(* Properties of the mask.                                                 *)
(***************************************************************************)
\* C11: on the topology path the two mask fields are built with the dilation
\* counts ceil(dilation * (1 + offset)) and floor(dilation * (1 - offset)),
\* offset the bounding limit clamped to [0, 1].
C11_MaskDilationCounts ==
    (~lv.doSphereConversion /\ Started("masktopology")) =>
        LET offset == ClampOffset(parm.boundinglimit)
        IN  /\ lv.increase = RCeil(RMul(R(parm.dilation), RAdd(R(1), offset)))
            /\ lv.decrease = RFloor(RMul(R(parm.dilation), RSub(R(1), offset)))

\* the exported mask primitives
MaskPrims == {k \in 1 .. Len(gdp) : gdp[k].name = Name(parm.maskname)}

\* C12: with a bounding limit of zero or less the exported mask has no
\* active voxel and is its background everywhere, on either conversion.
C12_ZeroOffsetEmptyMask ==
    (Started("exportmask") /\ RLeq(parm.boundinglimit, R(0))) =>
        /\ MaskPrims # {}
        /\ \A k \in MaskPrims :
              /\ NoActiveVoxel(gdp[k].grid)
              /\ AllBackground(gdp[k].grid)
              /\ gdp[k].grid.gridClass = "GRID_FOG_VOLUME"

C12_Witness ==
    /\ pc = "done"
    /\ Started("exportmask")
    /\ parm.boundinglimit = R(0)
    /\ ~lv.doSphereConversion
    /\ ~NoActiveVoxel(lv.outputGrid.grid)
    /\ \E k \in MaskPrims : NoActiveVoxel(gdp[k].grid)

\* the bounding limit brought into [0, 1]
Clamped01(x) == IF x.n < 0 THEN R(0) ELSE IF RLess(R(1), x) THEN R(1) ELSE x

\* the adapter of the cook with the radius multiplier mult
AdapterWith(mult) ==
    setRadiusMult(ParticleList(ptGeo, parm.particlescale, parm.velocityscale), mult)

\* C13: on the sphere path the two mask passes rasterize the adapter of the
\* cook with the radius multipliers s * (1 + offset) and s * (1 - offset),
\* offset the bounding limit clamped to [0, 1]; the inner multiplier is not
\* negative and the mask is built without an error.
C13_MaskRadiusMultipliers ==
    (lv.doSphereConversion /\ Started("maskraster")) =>
        LET offset == Clamped01(parm.boundinglimit)
            outer == RMul(parm.particlescale, RAdd(R(1), offset))
            inner == RMul(parm.particlescale, RSub(R(1), offset))
        IN  /\ pc = "maskmin" => lv.paList = AdapterWith(outer)
            /\ pc # "maskmin" => (lv.paList = AdapterWith(inner) /\ inner.n >= 0)
            /\ msgs.errors = <<>>

C13_Witness ==
    /\ pc = "done"
    /\ lv.doSphereConversion
    /\ Started("exportmask")
    /\ parm.boundinglimit = Frac(3, 2)
    /\ parm.particlescale = R(1)
    /\ lv.paList.mRadiusMult = R(0)
    /\ msgs.errors = <<>>

(***************************************************************************)
(* Properties of the rasterization passes.                                 *)
(***************************************************************************)
\* radius in voxels of particle n under radius multiplier mult
RadiusInVoxels(mult, n) ==
    RDivI(IF ptGeo.hasPscale THEN RMul(mult, R(ptGeo.pscale[n])) ELSE mult,
          lv.outputGrid.grid.voxelSize)
TooSmall(mult) ==
    {n \in 1 .. size(ptGeo) : RLess(RadiusInVoxels(mult, n), parm.minradius)}
TooLarge(mult) ==
    {n \in 1 .. size(ptGeo) : /\ ~RLess(RadiusInVoxels(mult, n), parm.minradius)
                              /\ AboveRmax(RadiusInVoxels(mult, n))}
PassNumbers == 1 .. Len(lv.passes)

\* C14 as stated: in every rasterization pass the counts of too-small,
\* too-large and used particles add up to the particle count, and a pass
\* that used no particle has an entirely background field.
C14_CountsCoverEveryParticle ==
    \A k \in PassNumbers :
        /\ lv.passes[k].minCount + lv.passes[k].maxCount + lv.passes[k].usedCount
               = size(ptGeo)
        /\ lv.passes[k].usedCount = 0 => lv.passes[k].empty

\* C14: in every rasterization pass the three counts add up to the number
\* of particles the pass got through; a pass that ran to completion counts
\* exactly the particles whose radius in voxels is below the minimum radius
\* as too small, those above the maximum as too large and all others as
\* used, so the counts add up to the particle count; a completed pass that
\* started from an empty field and used no particle leaves it entirely
\* background.
C14_CompletedPassCounts ==
    \A k \in PassNumbers :
        LET p == lv.passes[k]
        IN  /\ p.minCount + p.maxCount + p.usedCount = p.processed
            /\ p.processed = size(ptGeo) =>
                   /\ p.minCount = Cardinality(TooSmall(p.mult))
                   /\ p.maxCount = Cardinality(TooLarge(p.mult))
                   /\ p.minCount + p.maxCount + p.usedCount = size(ptGeo)
                   /\ (p.usedCount = 0 /\ p.fresh) => p.empty

C14_Witness ==
    /\ pc = "done"
    /\ Len(lv.passes) = 3
    /\ size(ptGeo) = 1
    /\ lv.passes[1].processed = 1 /\ lv.passes[1].usedCount = 1
    /\ ~lv.passes[1].empty
    /\ lv.passes[3].processed = 1 /\ lv.passes[3].minCount = 1
    /\ lv.passes[3].usedCount = 0 /\ lv.passes[3].empty

\* the primary pass has run to completion on an empty field
PrimaryPassComplete ==
    /\ Started("rasterize")
    /\ lv.passes[1].processed = size(ptGeo)
    /\ lv.passes[1].fresh
PrimaryAdapter == AdapterWith(lv.passes[1].mult)
UsedIds ==
    {n - 1 : n \in (1 .. size(ptGeo)) \ (TooSmall(lv.passes[1].mult)
                                            \cup TooLarge(lv.passes[1].mult))}
\* the sphere centres of particle id and its distance to voxel x, cut off
\* at the inner band
CentresOf(id) ==
    IF RasterMode(parm, PrimaryAdapter) = "trails"
    THEN TrailCentres(ptGeo.P[id + 1], getVel(PrimaryAdapter, ptGeo, id),
                      parm.trailresolution, lv.raster.grid.voxelSize)
    ELSE <<R(ptGeo.P[id + 1])>>
ParticleDist(id, x) ==
    LET cs == CentresOf(id)
        d(k) == SphereDist(WorldPos(x, lv.raster.grid.voxelSize), cs[k],
                           getRadOrMult(PrimaryAdapter, ptGeo, id))
        nearest == CHOOSE k \in 1 .. Len(cs) : \A j \in 1 .. Len(cs) : RLeq(d(k), d(j))
    IN  RMax(d(nearest), RNeg(lv.raster.grid.background))
Closest(x) ==
    {id \in UsedIds : \A other \in UsedIds : RLeq(ParticleDist(id, x), ParticleDist(other, x))}

\* C15: after a completed rasterization every active voxel holds the
\* minimum distance over the used particles and the index field holds the
\* id of the particle attaining it, the lowest id among equidistant
\* particles, whatever the partition across workers and the merge order.
C15_LowestIdAmongEquidistant ==
    (PrimaryPassComplete /\ outputAttributeGrid(parm)) =>
        \A x \in Voxels :
            lv.raster.grid.on[x] =>
                /\ Closest(x) # {}
                /\ \A id \in Closest(x) :
                       /\ RLeq(lv.raster.grid.val[x], ParticleDist(id, x))
                       /\ RLeq(ParticleDist(id, x), lv.raster.grid.val[x])
                       /\ lv.raster.idx[x] <= id
                /\ lv.raster.idx[x] \in Closest(x)

(***************************************************************************)
(* Properties of the attribute transfer.                                   *)
(***************************************************************************)
TransferRan == Started("transfer")
IndexField == AttributeGrid(lv.raster, lv.idxTree).grid
Descriptors == 1 .. Len(lv.pointAttributes)
\* the primitives of descriptor k, whose grid got the tree after the index
\* grid's and those of the descriptors before it
FieldsOf(k) == {j \in 1 .. Len(gdp) : gdp[j].tree = lv.idxTree + k}
\* what the field of descriptor k, named for component c of its attribute
\* (-1 when the attribute has one component), is to hold at a voxel whose
\* closest point is id
ValueOf(k, c, id) ==
    IF lv.pointAttributes[k].isVector
    THEN <<AttrValue(lv.pointAttributes[k].attribute, id, 0),
           AttrValue(lv.pointAttributes[k].attribute, id, 1),
           AttrValue(lv.pointAttributes[k].attribute, id, 2)>>
    ELSE <<AttrValue(lv.pointAttributes[k].attribute, id, IF c = -1 THEN 0 ELSE c)>>

\* C16: after the attribute transfer every output field has exactly the
\* active voxels of the index field, each active voxel holds the attribute
\* value of the particle whose id the index field stores there and was
\* written exactly once, inactive voxels were not written, and this is so
\* whatever the order in which the tasks ran, so that two materializations
\* agree.
C16_TransferFollowsIndexField ==
    TransferRan =>
        \A k \in Descriptors :
            /\ Cardinality(FieldsOf(k)) = 1
            /\ \A j \in FieldsOf(k) : \A x \in Voxels :
                   /\ gdp[j].grid.on[x] = IndexField.on[x]
                   /\ IndexField.on[x] =>
                          /\ gdp[j].grid.val[x] = ValueOf(k, gdp[j].name[2], IndexField.val[x])
                          /\ lv.writes[x] = 1
                   /\ ~IndexField.on[x] =>
                          /\ gdp[j].grid.val[x] = <<lv.pointAttributes[k].default>>
                          /\ lv.writes[x] = 0

C16_Witness ==
    /\ pc = "done"
    /\ TransferRan
    /\ Len(lv.pointAttributes) = 2
    /\ lv.pointAttributes[2].attribute = "uv"
    /\ lv.pointAttributes[2].component = 1
    /\ \E x, y \in Voxels : /\ IndexField.on[x] /\ IndexField.val[x] = 0
                            /\ IndexField.on[y] /\ IndexField.val[y] = 1
                            /\ \E j \in FieldsOf(2) : gdp[j].grid.val[y] = <<21>>

\* the cook transferred one requested attribute, which the geometry has
\* with a tuple interface and one of the six numeric storage kinds
OneNumericRequest ==
    /\ TransferRan
    /\ parm.attrList = 1
    /\ parm.attribute[1].attribute \in DOMAIN ptGeo.attribs
    /\ ptGeo.attribs[parm.attribute[1].attribute].aifTuple
    /\ ptGeo.attribs[parm.attribute[1].attribute].storage \in
           {"GA_STORE_INT16", "GA_STORE_INT32", "GA_STORE_INT64", "GA_STORE_REAL16",
            "GA_STORE_REAL32", "GA_STORE_REAL64"}
Requested == ptGeo.attribs[parm.attribute[1].attribute]
VectorSemantic ==
    \/ Requested.tupleSize = 3
    \/ Requested.typeInfo \in {"GA_TYPE_POINT", "GA_TYPE_HPOINT", "GA_TYPE_VECTOR",
                               "GA_TYPE_NORMAL"}
OneVectorDescriptor ==
    /\ Len(lv.pointAttributes) = 1
    /\ lv.pointAttributes[1].isVector
    /\ Cardinality(FieldsOf(1)) = 1
ScalarPerComponent ==
    /\ Len(lv.pointAttributes) = Requested.tupleSize
    /\ \A k \in Descriptors : /\ ~lv.pointAttributes[k].isVector
                              /\ lv.pointAttributes[k].component = k - 1
                              /\ Cardinality(FieldsOf(k)) = 1

\* C17 as stated: for each of the six storage kinds a vector-semantic
\* attribute (3 components, or tagged point, vector or normal) gives exactly
\* one vector descriptor and any other attribute with k components gives
\* exactly k scalar descriptors.
C17_VectorForEveryStorage ==
    OneNumericRequest =>
        IF VectorSemantic THEN OneVectorDescriptor ELSE ScalarPerComponent

\* C17: for the storage kinds int16, int32, real16, real32 and real64 a
\* vector-semantic attribute gives exactly one vector descriptor and any
\* other attribute with k components exactly k scalar descriptors, one per
\* component; an int64 attribute gives k scalar descriptors whether it is
\* vector-semantic or not.
C17_DescriptorsPerKind ==
    OneNumericRequest =>
        IF VectorSemantic /\ Requested.storage # "GA_STORE_INT64"
        THEN OneVectorDescriptor
        ELSE ScalarPerComponent

C17_Witness ==
    /\ pc = "done"
    /\ OneNumericRequest
    /\ Requested.storage = "GA_STORE_INT16"
    /\ Requested.typeInfo = "GA_TYPE_VECTOR"
    /\ Requested.tupleSize = 2
    /\ OneVectorDescriptor
    /\ lv.pointAttributes[1].valueType = "Vec3i"

\* a requested attribute the list construction cannot use: not found,
\* without tuple interface, or of a storage kind it does not know
Unusable(req) ==
    /\ req.attribute \notin {"", "point_list_index"}
    /\ \/ req.attribute \notin DOMAIN ptGeo.attribs
       \/ ~ptGeo.attribs[req.attribute].aifTuple
       \/ ptGeo.attribs[req.attribute].storage \notin
              {"GA_STORE_INT16", "GA_STORE_INT32", "GA_STORE_INT64", "GA_STORE_REAL16",
               "GA_STORE_REAL32", "GA_STORE_REAL64"}
Usable(req) == ~Unusable(req)
UnusableEntries == {i \in 1 .. parm.attrList : Unusable(parm.attribute[i])}
SkipWarnings ==
    {k \in 1 .. Len(msgs.warnings) :
        msgs.warnings[k] \in {WarnSkippedName(""), WarnSkippedType}}
\* the list of requests without the unusable ones
UsableRequests == SelectSeq(parm.attribute, Usable)

\* C18: after the attribute transfer there is one warning for every
\* requested attribute that is not found, has no tuple interface or has an
\* unrecognized storage kind, no descriptor and no output field comes from
\* such an attribute, and the descriptors are those of the list with these
\* entries left out: the entries before and after them are processed.
C18_UnusableAttributeSkipped ==
    TransferRan =>
        /\ Cardinality(SkipWarnings) = Cardinality(UnusableEntries)
        /\ \A k \in Descriptors : \A i \in UnusableEntries :
               lv.pointAttributes[k].attribute # parm.attribute[i].attribute
        /\ \A j \in 1 .. Len(gdp) : \A i \in UnusableEntries :
               gdp[j].name[1] # parm.attribute[i].attribute
        /\ lv.pointAttributes =
               constructGenericAtttributeList(
                   [parm EXCEPT !.attribute = UsableRequests,
                                !.attrList = Len(UsableRequests)], ptGeo).list

C18_Witness ==
    /\ pc = "done"
    /\ TransferRan
    /\ parm.attrList = 2
    /\ parm.attribute[1].attribute = "nosuch"
    /\ parm.attribute[2].attribute = "uv"
    /\ Len(lv.pointAttributes) = 2
    /\ Cardinality(SkipWarnings) = 1

\* the entries of the list that request the closest point index grid
IndexRequests ==
    {i \in 1 .. parm.attrList : parm.attribute[i].attribute = "point_list_index"}
LastIndexRequest == CHOOSE i \in IndexRequests : \A j \in IndexRequests : j <= i
IndexFields == {j \in 1 .. Len(gdp) : gdp[j].tree = lv.idxTree}

\* C19: after the attribute transfer no descriptor stands for
\* 'point_list_index'; if no entry requests it the index field is not
\* exported, and if one or more entries request it the index field is
\* exported exactly once, as the rasterizer left it, under the custom name of
\* the requesting entry (the last one when there are several) if that is
\* non-empty and under 'point_list_index' otherwise.
C19_IndexFieldExportedOnce ==
    TransferRan =>
        /\ \A k \in Descriptors : lv.pointAttributes[k].attribute # "point_list_index"
        /\ IndexRequests = {} => IndexFields = {}
        /\ IndexRequests # {} =>
               /\ Cardinality(IndexFields) = 1
               /\ \A j \in IndexFields :
                      /\ gdp[j].grid = IndexField
                      /\ \A x \in Voxels : /\ gdp[j].grid.val[x] = lv.raster.idx[x]
                                           /\ gdp[j].grid.on[x] = (lv.raster.idx[x] # -1)
                      /\ gdp[j].name =
                             IF parm.attribute[LastIndexRequest].attributeGridName = ""
                             THEN <<"point_list_index", -1>>
                             ELSE <<parm.attribute[LastIndexRequest].attributeGridName, -1>>

C19_Witness ==
    /\ pc = "done"
    /\ TransferRan
    /\ IndexRequests = {1, 2}
    /\ parm.attribute[1].attributeGridName = "closest"
    /\ parm.attribute[2].attributeGridName = "idx"
    /\ lv.pointAttributes = <<>>
    /\ Cardinality(IndexFields) = 1
    /\ \A j \in IndexFields : gdp[j].name = <<"idx", -1>>

(***************************************************************************)
(* Properties of the warnings.                                             *)
(***************************************************************************)
IgnoredWarnings ==
    {k \in 1 .. Len(msgs.warnings) :
        msgs.warnings[k][1] = "Ignored small and large particles"}

\* C20: in one cook the warning about ignored particles is emitted at most
\* once, also when the mask adds rasterization passes.
C20_IgnoredWarnedAtMostOnce == Cardinality(IgnoredWarnings) <= 1

(***************************************************************************)
(* Properties of the exported transforms.                                  *)
(***************************************************************************)
\* C26: every field exported by a cook has a voxel size of at least the
\* minimum (1e-5), also when the voxel size is taken from a reference field.
C26_ExportedVoxelSizeAtLeastMinimum ==
    \A k \in 1 .. Len(gdp) : gdp[k].grid.voxelSize >= MinVoxelSize

(***************************************************************************)
(* Properties of the outputs of the two conversions.                       *)
(***************************************************************************)
\* the exported fields that are neither the distance, the fog nor the mask
\* field: the attribute fields and the index field
AttributeFields ==
    {k \in 1 .. Len(gdp) :
        \/ gdp[k].name \notin {Name(parm.distancename), Name(parm.fogname),
                               Name(parm.maskname)}
        \/ gdp[k].grid.valueType # "float"}
OnlyAttributes(p) ==
    /\ outputAttributeGrid(p)
    /\ ~outputLevelSetGrid(p) /\ ~outputFogVolumeGrid(p) /\ ~outputMaskVolumeGrid(p)

\* C25: on the topology conversion no attribute field and no index field is
\* exported, whatever is requested; a cook asking for attributes only passes
\* the output selection (no "No output selected" warning, the conversion
\* runs) and ends without any output field.
C25_TopologyExportsNoAttributes ==
    parm.conversion # 0 =>
        /\ ~TransferRan
        /\ AttributeFields = {}
        /\ (pc = "done" /\ OnlyAttributes(parm)) =>
              /\ gdp = <<>>
              /\ ~Has(msgs.warnings, WarnNoOutput)
              /\ (msgs.errors = <<>> /\ ~boss) => Started("topology")

C25_Witness ==
    /\ pc = "done"
    /\ parm.conversion # 0
    /\ OnlyAttributes(parm)
    /\ parm.attribute = <<Request("Cd")>>
    /\ Started("topology")
    /\ msgs = NoMsgs
    /\ gdp = <<>>

\* the primary field as the conversion left it, before any export
PrimaryField ==
    IF lv.doSphereConversion THEN lv.raster.grid ELSE csgUnion(lv.unionA, lv.unionB)
DistancePrims == {k \in 1 .. Len(gdp) : gdp[k].name = Name(parm.distancename)}
FogPrims == {k \in 1 .. Len(gdp) : gdp[k].name = Name(parm.fogname)}

\* C24: with the distance and the fog output both requested the fog
\* conversion works on a copy: the exported distance field is still the
\* primary level set and the fog field is a second grid; with the fog output
\* alone the primary grid itself (the first grid of the cook, tree 0) is
\* converted and no distance field is exported.
C24_FogConvertsCopy ==
    (pc = "done" /\ Started("exportfog")) =>
        /\ Cardinality(FogPrims) = 1
        /\ \A f \in FogPrims : gdp[f].grid = sdfToFogVolume(PrimaryField)
        /\ IF outputLevelSetGrid(parm)
           THEN /\ Cardinality(DistancePrims) = 1
                /\ \A d \in DistancePrims :
                      /\ gdp[d].grid = PrimaryField
                      /\ gdp[d].grid.gridClass = "GRID_LEVEL_SET"
                      /\ gdp[d].tree = 0
                      /\ \A f \in FogPrims : gdp[f].tree # gdp[d].tree
           ELSE /\ DistancePrims = {}
                /\ \A f \in FogPrims : gdp[f].tree = 0

C24_Witness ==
    /\ pc = "done"
    /\ Started("exportfog")
    /\ outputLevelSetGrid(parm)
    /\ \E d \in DistancePrims, f \in FogPrims :
          /\ gdp[d].tree # gdp[f].tree
          /\ gdp[d].grid.gridClass = "GRID_LEVEL_SET"
          /\ gdp[f].grid.gridClass = "GRID_FOG_VOLUME"
          /\ \E x \in Voxels : gdp[f].grid.on[x] /\ gdp[d].grid.val[x].n < 0

(***************************************************************************)
(* Properties of the particle adapter.                                     *)
(***************************************************************************)
\* the adapter as cookVDBSop constructs it
ConstructedAdapter == ParticleList(ptGeo, parm.particlescale, parm.velocityscale)
AdapterBuilt == lv.transform # 0
MaskMultipliers ==
    LET m == MaskRadiusMult(parm.particlescale, Clamped01(parm.boundinglimit))
    IN  {m.max, m.min}

\* C23: the primary rasterization and the attribute transfer see the adapter
\* with the particle-scale parameter as radius multiplier; the multiplier
\* changes only once the primary pass has finished and a mask pass has run;
\* but for the multiplier the adapter stays as constructed (geometry,
\* attribute flags, velocity multiplier); and every mask pass takes its
\* multiplier from the particle scale, never from an earlier pass.
C23_AdapterDuringPrimaryPass ==
    /\ pc \in {"rasterize", "transfer"} => lv.paList = ConstructedAdapter
    /\ lv.passes # <<>> => lv.passes[1].mult = parm.particlescale
    /\ AdapterBuilt =>
          /\ [lv.paList EXCEPT !.mRadiusMult = parm.particlescale] = ConstructedAdapter
          /\ radiusMult(lv.paList) # parm.particlescale =>
                /\ Started("rasterize")
                /\ Started("maskraster")
                /\ pc \in {"maskmin", "maskcombine", "distance", "fog", "done"}
    /\ \A k \in 2 .. Len(lv.passes) : lv.passes[k].mult \in MaskMultipliers

C23_Witness ==
    /\ pc = "done"
    /\ TransferRan
    /\ Len(lv.passes) = 3
    /\ lv.passes[1].mult = parm.particlescale
    /\ lv.passes[2].mult # parm.particlescale
    /\ radiusMult(lv.paList) # parm.particlescale
    /\ radiusMult(lv.paList) # parm.velocityscale
    /\ size(ptGeo) > 0

(***************************************************************************)
(* Properties of the rasterization mode.                                   *)
(***************************************************************************)
\* the mode as the claim states it, from the parameters and the point
\* attributes alone
ClaimedMode ==
    IF parm.velocitytrails /\ ptGeo.hasV THEN "trails"
    ELSE IF ptGeo.hasPscale THEN "spheres"
    ELSE "fixed"
\* the field a complete pass under the claimed mode leaves in an empty
\* level set: trails, per-particle radii, or one radius equal to mult
ClaimedField(mult) ==
    LET pa == [ConstructedAdapter EXCEPT !.mRadiusMult = mult]
        r == Raster(EmptyLevelSet(lv.background, lv.transform, 0).grid)
        o == CHOOSE order \in Orders(ptGeo) : TRUE
    IN  finalize(
            CASE ClaimedMode = "trails" ->
                   rasterizeTrails(r, pa, ptGeo, parm.trailresolution, parm.minradius, o)
              [] ClaimedMode = "spheres" ->
                   rasterizeSpheres(r, pa, ptGeo, parm.minradius, o)
              [] ClaimedMode = "fixed" ->
                   rasterizeSpheresFixed(r, ptGeo, mult, parm.minradius, o)).grid
TrailsWarnings == {k \in 1 .. Len(msgs.warnings) : msgs.warnings[k] = WarnTrails}

\* C22: every rasterization pass of the sphere conversion runs in the one
\* mode the claim names (trails with trails requested and a velocity
\* attribute, else per-particle radii with a radius attribute, else the
\* constant radius of the current multiplier), a completed primary pass
\* leaves the field of that mode, and the trails warning is there exactly
\* when trails are requested without a velocity attribute.
C22_OneModePerPass ==
    /\ \A k \in PassNumbers : lv.passes[k].mode = ClaimedMode
    /\ (pc \in {"transfer", "mask"} /\ PrimaryPassComplete /\ ~lv.merging) =>
          lv.raster.grid = ClaimedField(lv.passes[1].mult)
    /\ Started("rasterize") =>
          Cardinality(TrailsWarnings) = IF parm.velocitytrails /\ ~ptGeo.hasV THEN 1 ELSE 0
    /\ (parm.velocitytrails /\ ~ptGeo.hasV) => \A k \in PassNumbers : lv.passes[k].mode # "trails"
    /\ (parm.conversion # 0 \/ ~parm.velocitytrails \/ ptGeo.hasV) => TrailsWarnings = {}

C22_Witness ==
    /\ pc = "done"
    /\ Len(lv.passes) = 3
    /\ parm.velocitytrails /\ ptGeo.hasV /\ ptGeo.hasPscale
    /\ \A k \in PassNumbers : lv.passes[k].mode = "trails"
    /\ PrimaryPassComplete
    /\ lv.passes[1].usedCount > 0
    /\ \E x \in Voxels : lv.raster.grid.on[x]

\* trails requested without a velocity attribute: the warning, and spheres
C22_WitnessWarned ==
    /\ pc = "done"
    /\ parm.velocitytrails /\ ~ptGeo.hasV /\ ~ptGeo.hasPscale
    /\ Cardinality(TrailsWarnings) = 1
    /\ lv.passes # <<>>
    /\ lv.passes[1].mode = "fixed"
    /\ lv.passes[1].usedCount > 0

(***************************************************************************)
(* Properties of two cooks of one node.                                    *)
(***************************************************************************)
\* C21: on the topology conversion a cook after a change of the radius
\* attribute, the velocity attribute, the particle scale, the velocity
\* scale, the minimum radius or the trail settings exports the same fields
\* (primary, fog and mask) as the cook before it, both cooks run to the end.
C21_TopologyIgnoresSphereInputs ==
    (pc = "done" /\ last.cooked /\ parm.conversion # 0 /\ ~boss /\ ~last.interrupted) =>
        gdp = last.gdp

C21_Witness ==
    /\ pc = "done"
    /\ last.cooked /\ ~last.interrupted /\ ~boss
    /\ parm.conversion # 0
    /\ parm.particlescale = R(2)
    /\ Started("union") /\ Started("exportmask") /\ Started("exportfog")
    /\ Len(gdp) = 3
    /\ gdp = last.gdp
    /\ \E k \in 1 .. Len(gdp) : \E x \in Voxels : gdp[k].grid.on[x]

=============================================================================
